---------------------------- MODULE Spec2Model ----------------------------
(***************************************************************************)
(* The directory-watching, debounced, mirrored file-conversion pipeline of *)
(* qmd-ui: converter.js, reproduced in README.md from line 176 on.         *)
(*                                                                         *)
(* A path string is a record [abs, segs, trail]: abs says whether the      *)
(* string starts with "/", segs is the sequence of its segments and trail  *)
(* whether it ends with a "/" after the last segment.  The string "/" is   *)
(* [abs |-> TRUE, segs |-> <<>>, trail |-> FALSE].  A segment is a         *)
(* sequence of tokens ("x", ".", "txt", "_qmd_converted", ...), so that    *)
(* the regular expressions and the extension handling of the code are      *)
(* computed on the text and not assumed.  A file of the file system is     *)
(* named by the segments of its absolute path.                             *)
(*                                                                         *)
(* chokidar is a library: the model follows the way converter.js           *)
(* configures and calls it (README.md 263-275, 295-311, 348):              *)
(*   - close() marks the watcher closed and removes the listeners at the   *)
(*     call; it returns one promise per watcher, the same one to every     *)
(*     caller, so every unwatchDir that awaits it resumes in the same      *)
(*     microtask drain;                                                    *)
(*   - event handlers are plain listeners: nothing awaits the promise an   *)
(*     async handler returns;                                              *)
(*   - awaitWriteFinish holds an add/change back until the path has been   *)
(*     quiet for stabilityThreshold; the adds of the initial scan          *)
(*     (ignoreInitial: false) are emitted as found.                        *)
(***************************************************************************)
EXTENDS Integers, Sequences, FiniteSets, TLC

(***************************************************************************)
(* Bounds of the model.                                                    *)
(***************************************************************************)
MaxHandles == 2

MaxFsOps == 2

MaxTasks == 2

MaxUnwatch == 2

(***************************************************************************)
(* Program constants.                                                      *)
(***************************************************************************)
MIRROR_SUFFIX == "_qmd_converted"

\* awaitWriteFinish.stabilityThreshold, in milliseconds.  The clock of the
\* model advances by this much at a time (pollInterval, 200, divides it, so
\* a poll falls on every step of the clock).
stabilityThreshold == 1000

(***************************************************************************)
(* Path strings.                                                           *)
(***************************************************************************)
Str(abs, segs, trail) == [abs |-> abs, segs |-> segs, trail |-> trail]

NoPath == Str(FALSE, <<>>, FALSE)

\* The working directory of the server process, against which node resolves
\* a relative path.
Cwd == << <<"srv">> >>

Front(s) == SubSeq(s, 1, Len(s) - 1)

Last(s) == s[Len(s)]

IsPrefix(r, f) == Len(r) <= Len(f) /\ SubSeq(f, 1, Len(r)) = r

\* path.resolve: absolute, without a trailing slash.
Resolve(p) == Str(TRUE, IF p.abs THEN p.segs ELSE Cwd \o p.segs, FALSE)

\* The segments of the absolute path a file-system call acts on.
AbsSegs(p) == IF p.abs THEN p.segs ELSE Cwd \o p.segs

\* s.replace(/\/?$/, MIRROR_SUFFIX): the suffix replaces a trailing slash
\* when the string ends with one and is appended otherwise.  The string "/"
\* ends with its only character, so it becomes the relative "_qmd_converted".
AppendSuffix(p) ==
    IF p.segs = <<>>
    THEN Str(FALSE, << <<MIRROR_SUFFIX>> >>, FALSE)
    ELSE Str(p.abs, Front(p.segs) \o << Last(p.segs) \o <<MIRROR_SUFFIX>> >>, FALSE)

\* The index of the last "." of a base name that is not its first token, or 0.
RECURSIVE LastDot(_, _)
LastDot(seg, i) ==
    IF i <= 1 THEN 0
    ELSE IF seg[i] = "." THEN i ELSE LastDot(seg, i - 1)

\* path.extname and path.parse(..).name of a base name.
ExtName(seg) ==
    LET d == LastDot(seg, Len(seg))
    IN  IF d = 0 THEN <<>> ELSE SubSeq(seg, d, Len(seg))

StemOf(seg) ==
    LET d == LastDot(seg, Len(seg))
    IN  IF d = 0 THEN seg ELSE SubSeq(seg, 1, d - 1)

\* String.prototype.toLowerCase on the tokens of the model.
LowerTok(t) ==
    CASE t = "TXT" -> "txt"
      [] t = "DOCX" -> "docx"
      [] OTHER -> t

\* The extension compared as it is spelled: no toLowerCase().
KeepCase(seg) == seg

ToLowerCase(seg) == [i \in 1..Len(seg) |-> LowerTok(seg[i])]

\* path.extname(filePath).toLowerCase(), README.md 278 / 299 / 371.
ExtOf(f) == IF f = <<>> THEN <<>> ELSE ToLowerCase(ExtName(Last(f)))

\* The test `ext !== ".docx" && ext !== ".txt"` of processFile, the unlink
\* handler and convertFile, negated.
IsConvertible(f) == ExtOf(f) \in { <<".", "docx">>, <<".", "txt">> }

IsDocx(f) == ExtOf(f) = <<".", "docx">>

\* getMirrorPath(watchDir, filePath): watchDir is a resolved path string,
\* filePath the segments of an absolute path below it.
getMirrorPath(watchDir, f) ==
    LET mirrorDir == AppendSuffix(watchDir)
        relative == SubSeq(f, Len(watchDir.segs) + 1, Len(f))
        dir == Front(relative)
        name == StemOf(Last(relative))
    IN  Str(mirrorDir.abs, mirrorDir.segs \o dir \o << name \o <<".", "md">> >>, FALSE)

\* The `ignored` list of chokidar.watch, matched against the whole path.
IgnoredDot(f) == \E i \in 1..Len(f) : Len(f[i]) > 0 /\ f[i][1] = "."

IgnoredNodeModules(f) == \E i \in 1..Len(f) : \E j \in 1..Len(f[i]) : f[i][j] = "node_modules"

IgnoredMirror(f) == \E i \in 1..Len(f) : \E j \in 1..Len(f[i]) : f[i][j] = MIRROR_SUFFIX

\* The list without its third entry: nothing keeps the mirror directories out.
IgnoredWithoutMirror(f) == IgnoredDot(f) \/ IgnoredNodeModules(f)

Ignored(f) == IgnoredDot(f) \/ IgnoredNodeModules(f) \/ IgnoredMirror(f)

\* chokidar.watch(dirPath, ..) reports the files below dirPath.
InScope(root, f) == Len(f) > Len(root.segs) /\ IsPrefix(root.segs, f)

Watches(root, f) == InScope(root, f) /\ ~Ignored(f)


(***************************************************************************)
(* The inputs of the model: the paths handed to watchDir / unwatchDir and  *)
(* the files the environment creates, rewrites and deletes.                *)
(***************************************************************************)
SegA == <<"a">>

SegB == <<"b">>

RootA == Str(TRUE, <<SegA>>, FALSE)

RootASlash == Str(TRUE, <<SegA>>, TRUE)

RootB == Str(TRUE, <<SegB>>, FALSE)

RootFs == Str(TRUE, <<>>, FALSE)

FileAd == <<SegA, <<"x", ".", "docx">>>>

FileBy == <<SegB, <<"y", ".", "txt">>>>

\* A convertible-looking file placed by hand in the mirror root of "/",
\* which getMirrorPath puts below the working directory.
FileMq == Cwd \o << <<MIRROR_SUFFIX>>, <<"q", ".", "txt">> >>

FileBd == <<SegB, <<"x", ".", "docx">>>>

FileAz == <<SegA, <<"z", ".", "docx">>>>

FileAt == <<SegA, <<"x", ".", "txt">>>>

FilePdf == <<SegA, <<"report", ".", "pdf">>>>

\* "/a/notes_node_modules.txt"
FileNotes == <<SegA, <<"notes_", "node_modules", ".", "txt">>>>

FileUpper == <<SegA, <<"x", ".", "DOCX">>>>

\* "/a/b", a directory inside the root "/a", and a file in it.
RootAB == Str(TRUE, <<SegA, SegB>>, FALSE)

FileAbd == <<SegA, SegB, <<"x", ".", "docx">>>>

\* The outputDir arguments of convertFile: NoPath is the omitted argument
\* (null from the route, falsy like ""), the other one is "/out/".
DirOut == Str(TRUE, << <<"out">> >>, TRUE)

\* The worlds the model is run in: the paths the callers pass, the files
\* the environment touches, and whether it may write a .docx that mammoth
\* cannot parse.  A behaviour stays in the world it starts in.
WorldOne == [roots |-> {RootA, RootASlash}, files |-> {FileAd}, bad |-> {FALSE}]

WorldTwo == [roots |-> {RootA, RootB}, files |-> {FileAd, FileBy}, bad |-> BOOLEAN]

WorldRoot == [roots |-> {RootFs}, files |-> {FileAd, FileMq}, bad |-> {FALSE}]

\* The inputs of on-demand conversion: a supported and an unsupported file,
\* with and without an output directory.
WorldDemand == [roots |-> {RootA}, files |-> {FileAd, FilePdf},
                bad |-> BOOLEAN, outs |-> {NoPath, DirOut}]

\* Files that can hold the same bytes: under the same base name in two
\* directories, and under two base names.
WorldTwins == [roots |-> {RootA}, files |-> {FileAd, FileBd, FileAz},
               bad |-> {FALSE}, outs |-> {NoPath, DirOut}]

\* A file of a supported type spelled in upper case and a file of an
\* unsupported type, in one watched directory.
WorldTypes == [roots |-> {RootA}, files |-> {FileUpper, FilePdf}, bad |-> {FALSE}]

\* The value of a field of a request body.
Field(pad, p) == [pad |-> pad, p |-> p]

Absent == Field(FALSE, NoPath)

\* Requests to the converter routes: the directory /a plain, padded and
\* as "/a/../a", the file /a/x.docx plain and as "/a/../a/x.docx", and an
\* outputDir that is absent, "/out/" or "/out;x".
DirDotDot == Str(TRUE, <<SegA, <<"..">>, SegA>>, FALSE)

FileDotDot == Str(TRUE, <<SegA, <<"..">>>> \o FileAd, FALSE)

DirMeta == Str(TRUE, << <<"out", ";", "x">> >>, FALSE)

WorldRoutes == [roots |-> {RootA}, files |-> {FileAd}, bad |-> {FALSE},
                paths |-> {Field(FALSE, RootA), Field(TRUE, RootA), Field(FALSE, DirDotDot), Absent},
                reqFiles |-> {Field(FALSE, Str(TRUE, FileAd, FALSE)), Field(FALSE, FileDotDot)},
                reqOuts |-> {Absent, Field(FALSE, DirOut), Field(FALSE, DirMeta)}]

WorldFault == [roots |-> {RootA, RootB}, files |-> {FileAd}, bad |-> {FALSE}]

\* Two files of one directory with the same stem.
WorldStems == [roots |-> {RootA}, files |-> {FileAd, FileAt}, bad |-> {FALSE}]

\* One session, and on-demand conversions into its mirror directory.
WorldRace == [roots |-> {RootA}, files |-> {FileAd}, bad |-> {FALSE},
              outs |-> {AppendSuffix(RootA)}]

\* One session, and on-demand conversions that write beside the source.
WorldFrame == [roots |-> {RootA}, files |-> {FileAd}, bad |-> {FALSE}, outs |-> {NoPath}]

\* A file whose name contains the text of an ignore rule.
WorldNames == [roots |-> {RootA}, files |-> {FileAd, FileNotes}, bad |-> {FALSE}]

\* A watched root inside another watched root.
WorldNested == [roots |-> {RootA, RootAB}, files |-> {FileAbd}, bad |-> {FALSE}]

\* No session and no file: the page alone.
WorldPage == [roots |-> {}, files |-> {}, bad |-> {}]

Worlds == {WorldOne, WorldTwo, WorldRoot, WorldDemand, WorldTwins, WorldTypes, WorldFault, WorldPage,
           WorldRoutes, WorldStems, WorldRace,
           WorldFrame, WorldNames, WorldNested}

(***************************************************************************)
(* State.                                                                  *)
(*   fs              the files: absolute path |-> content                  *)
(*   dirs            the directories that exist                            *)
(*   watchers        the chokidar watchers ever created, by handle         *)
(*   activeWatchers  the Map of converter.js: resolved path |-> handle     *)
(*   pendingWrites   chokidar's awaitWriteFinish table: <<handle, file>>   *)
(*   tasks           the event handlers in flight                          *)
(*   nops            the number of changes the environment has made        *)
(*   burst           per source file whose burst of writes is not over (it *)
(*                   was written less than stabilityThreshold ago, or a    *)
(*                   watcher still holds its event back): the watchers     *)
(*                   that have called processFile for it since the burst   *)
(*                   began                                                 *)
(*   emitted         the events the last step handed to the listeners      *)
(*   world           the inputs of this behaviour                          *)
(*   ui              the page of app.js: its variables, the parts of the   *)
(*                   document the search changes, the requests in flight   *)
(*   last            what the last step returned to its caller or logged;  *)
(*                   for a change of a file, whether it came after the     *)
(*                   close of a watcher of that file                       *)
(***************************************************************************)
VARIABLES fs, dirs, watchers, activeWatchers, pendingWrites, tasks, nops,
          burst, emitted, last, world, ui

vars == <<fs, dirs, watchers, activeWatchers, pendingWrites, tasks, nops,
          burst, emitted, last, world, ui>>

EmptyMap == [x \in {} |-> 0]

MapPut(m, k, v) == [x \in DOMAIN m \cup {k} |-> IF x = k THEN v ELSE m[x]]

MapDel(m, k) == [x \in DOMAIN m \ {k} |-> m[x]]

MapDelAll(m, ks) == [x \in DOMAIN m \ ks |-> m[x]]

Handles == 1..Len(watchers)

Step(op, w, src, dest, ret, flag, k) ==
    [op |-> op, w |-> w, src |-> src, dest |-> dest, ret |-> ret, flag |-> flag, k |-> k]

\* A step that returns nothing to a caller and logs nothing.
Silent == Step("silent", 0, <<>>, <<>>, NoPath, FALSE, 0)

Min(a, b) == IF a < b THEN a ELSE b

\* The ancestors of a file or directory, itself excluded.
Ancestors(f) == {SubSeq(f, 1, i) : i \in 1..(Len(f) - 1)}

(***************************************************************************)
(* Contents.  A file written by the environment holds raw bytes: a version *)
(* stamp and, for a .docx, whether mammoth can parse it.  hdr holds the    *)
(* lines a conversion has put before such bytes, a line being a sequence   *)
(* of tokens.  A file into which a write at offset 0 has put fewer bytes   *)
(* than it held has a third field, tail: the content whose end is left     *)
(* behind the bytes written.                                               *)
(***************************************************************************)
Raw(ver, bad) == [hdr |-> <<>>, body |-> [ver |-> ver, bad |-> bad, md |-> FALSE]]

\* A header that ends with one "\n": no blank line before the body.
HeaderWithoutBlankLine(src) == << <<"<!-- Converted from: ">> \o Last(src) \o <<" -->">> >>

\* A header that names srcPath instead of path.basename(srcPath).
HeaderWithPath(src) ==
    << <<"<!-- Converted from: ">> \o src[1] \o <<"/">> \o Last(src) \o <<" -->">>, <<>> >>

\* `<!-- Converted from: ${path.basename(srcPath)} -->\n\n`: the comment
\* line and the empty line after it.
Header(src) == << <<"<!-- Converted from: ">> \o Last(src) \o <<" -->">>, <<>> >>

\* mammoth.convertToMarkdown({ buffer }): result.value.
Mammoth(c) == [c.body EXCEPT !.md = TRUE]

\* header + result.value, README.md 222-223.
DocxOutput(src, c) == [hdr |-> Header(src), body |-> Mammoth(c)]

\* header + content, README.md 243-245.
TxtOutput(src, c) == [hdr |-> Header(src) \o c.hdr, body |-> c.body]

(***************************************************************************)
(* chokidar: which watchers report a change of file f, and what a change   *)
(* and a removal do to the awaitWriteFinish table.                         *)
(***************************************************************************)
\* A close() that takes effect only when its promise resolves: until then
\* the watcher goes on reporting.
LiveUntilClosed(w) == watchers[w].state # "closed"

\* close() sets `closed` and removes the listeners before it returns its
\* promise.
Live(w) == watchers[w].state = "open"

Notified(f) == {w \in Handles : Live(w) /\ watchers[w].ready /\ Watches(watchers[w].root, f)}

\* A raw add (the file is new) or change: the first one of a burst opens
\* the wait, a later one restarts the quiet time.
AwaitWriteFinish(pw, f, existed) ==
    LET ks == {<<w, f>> : w \in Notified(f)}
    IN  [k \in DOMAIN pw \cup ks |->
            IF k \notin ks THEN pw[k]
            ELSE IF k \in DOMAIN pw
                 THEN [pw[k] EXCEPT !.quiet = 0]
                 ELSE [ev |-> IF existed THEN "change" ELSE "add", quiet |-> 0]]

\* A removal cancels the wait; a file whose add was still waiting was never
\* announced, so its unlink is not either.
UnlinkEvents(pw, f) ==
    {[w |-> w, ev |-> "unlink", src |-> f] :
        w \in {x \in Notified(f) : <<x, f>> \in DOMAIN pw => pw[<<x, f>>].ev # "add"}}

CancelWait(pw, f) == MapDelAll(pw, {<<w, f>> : w \in Handles})

(***************************************************************************)
(* The listeners registered by watchDirectory: processFile for add and     *)
(* change, the unlink handler for unlink.  Each starts with the extension  *)
(* test and computes the mirror path; what it awaits is a task.            *)
(***************************************************************************)
Stamp(e) == IF e.ev = "unlink" THEN nops + 1 ELSE fs[e.src].body.ver

Dispatch(events) ==
    {[w |-> e.w, kind |-> IF e.ev = "unlink" THEN "unlink" ELSE "process",
      src |-> e.src, dest |-> getMirrorPath(watchers[e.w].root, e.src),
      pc |-> IF e.ev = "unlink" THEN "unlink" ELSE "read",
      buf |-> Raw(0, FALSE), stamp |-> Stamp(e)] :
        e \in {x \in events : IsConvertible(x.src)}}


(***************************************************************************)
(* The page, app.js 8-9 and 164-235, as loaded:                            *)
(*   q            the trimmed value of the search input ("" or a query)    *)
(*   focus        whether the search input has the focus                   *)
(*   isSearching, searchAbortController (0 is null, else the request its   *)
(*                signal belongs to)                                       *)
(*   reqs         the fetches in flight: request |-> [mode, aborted]       *)
(*   sent         the number of requests sent so far                       *)
(*   loading      "hidden", or the mode #loadingText announces           *)
(*   buttons      "search" (Fast and Deep shown) or "cancel"               *)
(*   view         what the results area shows                              *)
(*   toast        the toast shown last                                     *)
(*   did          what the last event on the page did                      *)
(***************************************************************************)
UiLoaded ==
    [q |-> "", focus |-> FALSE, isSearching |-> FALSE, searchAbortController |-> 0,
     reqs |-> EmptyMap, sent |-> 0, loading |-> "hidden", buttons |-> "search",
     view |-> "welcome", toast |-> "none", did |-> "load"]

(***************************************************************************)
(* Initial state: nothing watched, an empty file system.                   *)
(***************************************************************************)
Init ==
    /\ fs = EmptyMap
    /\ dirs = {}
    /\ watchers = <<>>
    /\ activeWatchers = EmptyMap
    /\ pendingWrites = EmptyMap
    /\ tasks = {}
    /\ nops = 0
    /\ burst = EmptyMap
    /\ emitted = {}
    /\ last = Silent
    /\ world \in Worlds
    /\ ui = UiLoaded

(***************************************************************************)
(* watchDir(dirPath), README.md 326-338.  last.flag is `already`, last.ret *)
(* is mirrorDir; last.k is 1 for a call that found the path unregistered   *)
(* and 2 for a call that directly follows such a call on the same path.    *)
(***************************************************************************)
\* watchDir without the lookup `activeWatchers.has(resolved)`: every call
\* creates a watcher and registers it.
WatchDirWithoutLookup(raw) ==
    LET resolved == Resolve(raw)
        mirrorDir == AppendSuffix(resolved)
        h == Len(watchers) + 1
    IN  /\ Len(watchers) < MaxHandles
        /\ watchers' = Append(watchers,
                [root |-> resolved, state |-> "open", ready |-> FALSE, awaiting |-> 0])
        /\ activeWatchers' = MapPut(activeWatchers, resolved, h)
        /\ last' = Step("watchDir", h, resolved.segs, <<>>, mirrorDir, FALSE, 1)
        /\ emitted' = {}
        /\ UNCHANGED <<fs, dirs, pendingWrites, tasks, nops, burst, world, ui>>

\* watchDir that takes a watcher it has closed for the path back into the
\* registry instead of creating one.
WatchDirReopens(raw) ==
    LET resolved == Resolve(raw)
        already == resolved \in DOMAIN activeWatchers
        mirrorDir == AppendSuffix(resolved)
        old == {w \in Handles : watchers[w].root = resolved /\ watchers[w].state = "closed"}
        h == IF old # {} THEN CHOOSE w \in old : TRUE ELSE Len(watchers) + 1
    IN  /\ already \/ old # {} \/ Len(watchers) < MaxHandles
        /\ IF already
           THEN UNCHANGED <<watchers, activeWatchers>>
           ELSE /\ watchers' = IF old # {}
                               THEN [watchers EXCEPT ![h].state = "open", ![h].ready = TRUE]
                               ELSE Append(watchers,
                                        [root |-> resolved, state |-> "open", ready |-> FALSE,
                                         awaiting |-> 0])
                /\ activeWatchers' = MapPut(activeWatchers, resolved, h)
        /\ last' = Step("watchDir", IF already THEN activeWatchers[resolved] ELSE h,
                        resolved.segs, <<>>, mirrorDir, already, 0)
        /\ emitted' = {}
        /\ UNCHANGED <<fs, dirs, pendingWrites, tasks, nops, burst, world, ui>>

WatchDir(raw) ==
    LET resolved == Resolve(raw)
        already == resolved \in DOMAIN activeWatchers
        mirrorDir == AppendSuffix(resolved)
        h == Len(watchers) + 1
        k == IF ~already THEN 1
             ELSE IF last.op = "watchDir" /\ last.src = resolved.segs /\ last.k = 1
                  THEN 2 ELSE 0
    IN  /\ already \/ Len(watchers) < MaxHandles
        /\ IF already
           THEN UNCHANGED <<watchers, activeWatchers>>
           ELSE /\ watchers' = Append(watchers,
                        [root |-> resolved, state |-> "open", ready |-> FALSE, awaiting |-> 0])
                /\ activeWatchers' = MapPut(activeWatchers, resolved, h)
        /\ last' = Step("watchDir", IF already THEN activeWatchers[resolved] ELSE h,
                        resolved.segs, <<>>, mirrorDir, already, k)
        /\ emitted' = {}
        /\ UNCHANGED <<fs, dirs, pendingWrites, tasks, nops, burst, world, ui>>

(***************************************************************************)
(* The initial scan of a new watcher (ignoreInitial: false): an add for    *)
(* every file found below the root that is not ignored, handed to          *)
(* processFile without the awaitWriteFinish delay.                         *)
(***************************************************************************)
\* chokidar.watch with ignoreInitial: true: the files found are not reported.
InitialScanIgnored(w) ==
    /\ Live(w) /\ ~watchers[w].ready
    /\ watchers' = [watchers EXCEPT ![w].ready = TRUE]
    /\ emitted' = {}
    /\ last' = Step("scan", w, <<>>, <<>>, NoPath, FALSE, 0)
    /\ UNCHANGED <<fs, dirs, activeWatchers, pendingWrites, tasks, nops, burst, world, ui>>

InitialScan(w) ==
    LET found == {f \in DOMAIN fs : Watches(watchers[w].root, f)}
        events == {[w |-> w, ev |-> "add", src |-> f] : f \in found}
    IN  /\ Live(w) /\ ~watchers[w].ready
        /\ Cardinality(tasks \cup Dispatch(events)) <= MaxTasks
        /\ watchers' = [watchers EXCEPT ![w].ready = TRUE]
        /\ tasks' = tasks \cup Dispatch(events)
        /\ emitted' = events
        /\ burst' = [f \in DOMAIN burst |-> IF f \in found THEN burst[f] \cup {w} ELSE burst[f]]
        /\ last' = Step("scan", w, <<>>, <<>>, NoPath, FALSE, 0)
        /\ UNCHANGED <<fs, dirs, activeWatchers, pendingWrites, nops, world, ui>>

(***************************************************************************)
(* unwatchDir(dirPath), README.md 344-352, up to its await: the lookup and *)
(* the call of watcher.close().  Without a watcher the call returns.       *)
(***************************************************************************)
RECURSIVE SumAwaiting(_)
SumAwaiting(n) == IF n = 0 THEN 0 ELSE watchers[n].awaiting + SumAwaiting(n - 1)

UnwatchDir(raw) ==
    LET resolved == Resolve(raw)
        found == resolved \in DOMAIN activeWatchers
        w == activeWatchers[resolved]
    IN  /\ IF ~found
           THEN /\ last' = Step("unwatchReturn", 0, resolved.segs, <<>>, NoPath, FALSE, 0)
                /\ UNCHANGED <<watchers, pendingWrites>>
           ELSE /\ SumAwaiting(Len(watchers)) < MaxUnwatch
                /\ watchers' = [watchers EXCEPT ![w].state = "closing", ![w].ready = FALSE,
                                                 ![w].awaiting = @ + 1]
                /\ pendingWrites' = MapDelAll(pendingWrites, {k \in DOMAIN pendingWrites : k[1] = w})
                /\ last' = Step("unwatchCall", w, resolved.segs, <<>>, NoPath, TRUE, 0)
        /\ emitted' = {}
        /\ UNCHANGED <<fs, dirs, activeWatchers, tasks, nops, burst, world, ui>>

(***************************************************************************)
(* The promise of watcher.close() resolves: every unwatchDir awaiting it   *)
(* resumes, runs activeWatchers.delete(resolved) and returns.              *)
(***************************************************************************)
\* A close() that hands every caller a promise of its own: the awaiting
\* unwatchDir calls resume one by one, with other calls in between.
CloseDoneOneByOne(w) ==
    /\ watchers[w].awaiting > 0
    /\ watchers' = [watchers EXCEPT ![w].state = "closed", ![w].awaiting = @ - 1]
    /\ activeWatchers' = MapDel(activeWatchers, watchers[w].root)
    /\ last' = Step("unwatchReturn", w, watchers[w].root.segs, <<>>, NoPath, TRUE, 0)
    /\ emitted' = {}
    /\ UNCHANGED <<fs, dirs, pendingWrites, tasks, nops, burst, world, ui>>

\* unwatchDir without `activeWatchers.delete(resolved)`.
CloseDoneKeepsEntry(w) ==
    /\ watchers[w].state = "closing"
    /\ watchers' = [watchers EXCEPT ![w].state = "closed", ![w].awaiting = 0]
    /\ last' = Step("unwatchReturn", w, watchers[w].root.segs, <<>>, NoPath, TRUE, 0)
    /\ emitted' = {}
    /\ UNCHANGED <<fs, dirs, activeWatchers, pendingWrites, tasks, nops, burst, world, ui>>

CloseDone(w) ==
    /\ watchers[w].state = "closing"
    /\ watchers' = [watchers EXCEPT ![w].state = "closed", ![w].awaiting = 0]
    /\ activeWatchers' = MapDel(activeWatchers, watchers[w].root)
    /\ last' = Step("unwatchReturn", w, watchers[w].root.segs, <<>>, NoPath, TRUE, 0)
    /\ emitted' = {}
    /\ UNCHANGED <<fs, dirs, pendingWrites, tasks, nops, burst, world, ui>>

(***************************************************************************)
(* The environment writes a file (creates it or replaces its content) or   *)
(* deletes it.                                                             *)
(***************************************************************************)
\* A write continues the burst of its file when it comes less than
\* stabilityThreshold after the write before it, and opens a burst otherwise.
\* What a change of file f is to the program: nothing it returns or logs.
\* The change is late when it happens below the root of a watcher whose
\* close() has been called (README.md 348) and so arrives at no listener.
Stopped(f) == {w \in Handles : watchers[w].state # "open" /\ Watches(watchers[w].root, f)}

Arrival(f) ==
    IF Stopped(f) = {} THEN Silent ELSE Step("late", 0, f, <<>>, NoPath, FALSE, 0)

Touch(b, pw, f) ==
    IF f \in DOMAIN b /\ ~\E k \in DOMAIN pw : k[2] = f /\ pw[k].quiet >= stabilityThreshold
    THEN b
    ELSE MapPut(b, f, {})

EnvWrite(f, bad) ==
    /\ nops < MaxFsOps
    /\ bad => IsDocx(f)
    /\ nops' = nops + 1
    /\ fs' = MapPut(fs, f, Raw(nops + 1, bad))
    /\ dirs' = dirs \cup Ancestors(f)
    /\ pendingWrites' = AwaitWriteFinish(pendingWrites, f, f \in DOMAIN fs)
    /\ burst' = Touch(burst, pendingWrites, f)
    /\ emitted' = {}
    /\ last' = Arrival(f)
    /\ UNCHANGED <<watchers, activeWatchers, tasks, world, ui>>

EnvDelete(f) ==
    LET events == UnlinkEvents(pendingWrites, f)
    IN  /\ nops < MaxFsOps
        /\ f \in DOMAIN fs
        /\ Cardinality(tasks \cup Dispatch(events)) <= MaxTasks
        /\ nops' = nops + 1
        /\ fs' = MapDel(fs, f)
        /\ pendingWrites' = CancelWait(pendingWrites, f)
        /\ tasks' = tasks \cup Dispatch(events)
        /\ emitted' = events
        /\ burst' = MapDel(burst, f)
        /\ last' = Arrival(f)
        /\ UNCHANGED <<dirs, watchers, activeWatchers, world, ui>>

(***************************************************************************)
(* Time passes: stabilityThreshold milliseconds without a write.  quiet is *)
(* the milliseconds since the last write, capped; the burst of a file that *)
(* no watcher is waiting on is over.                                       *)
(***************************************************************************)
Held(pw) == {k[2] : k \in DOMAIN pw}

Tick ==
    /\ \/ \E k \in DOMAIN pendingWrites : pendingWrites[k].quiet < stabilityThreshold
       \/ DOMAIN burst \ Held(pendingWrites) # {}
    /\ pendingWrites' = [k \in DOMAIN pendingWrites |->
            [pendingWrites[k] EXCEPT !.quiet = Min(@ + stabilityThreshold, stabilityThreshold)]]
    /\ burst' = [f \in DOMAIN burst \cap Held(pendingWrites) |-> burst[f]]
    /\ emitted' = {}
    /\ last' = Silent
    /\ UNCHANGED <<fs, dirs, watchers, activeWatchers, tasks, nops, world, ui>>

(***************************************************************************)
(* awaitWriteFinish finds the path quiet for stabilityThreshold and emits  *)
(* the add or change it held back: processFile is called.  last.flag says  *)
(* that this watcher had already dispatched the file in the same burst of  *)
(* writes.                                                                 *)
(***************************************************************************)
Stable(w, f) == pendingWrites[<<w, f>>].quiet >= stabilityThreshold

Stabilize(w, f) ==
    LET pw == pendingWrites[<<w, f>>]
        events == {[w |-> w, ev |-> pw.ev, src |-> f]}
    IN  /\ <<w, f>> \in DOMAIN pendingWrites
        /\ Live(w)
        /\ Stable(w, f)
        /\ Cardinality(tasks \cup Dispatch(events)) <= MaxTasks
        /\ pendingWrites' = MapDel(pendingWrites, <<w, f>>)
        /\ tasks' = tasks \cup Dispatch(events)
        /\ emitted' = events
        /\ burst' = IF f \notin DOMAIN burst THEN burst
                     ELSE IF f \in Held(pendingWrites') THEN [burst EXCEPT ![f] = @ \cup {w}]
                     ELSE MapDel(burst, f)
        /\ last' = Step("stabilize", w, f, <<>>, NoPath, f \in DOMAIN burst /\ w \in burst[f], 0)
        /\ UNCHANGED <<fs, dirs, watchers, activeWatchers, nops, world, ui>>


(***************************************************************************)
(* convertDocx / convertTxt, README.md 216-251, one action per await.      *)
(* The catch block logs and returns false: the task ends.                  *)
(***************************************************************************)
\* convertDocx / convertTxt without the try/catch: the rejection leaves the
\* handler and takes the session with it.
FailUncaught(t) ==
    /\ tasks' = {u \in tasks : u.w # t.w}
    /\ watchers' = [watchers EXCEPT ![t.w].state = "closed", ![t.w].ready = FALSE]
    /\ activeWatchers' = [p \in {q \in DOMAIN activeWatchers : activeWatchers[q] # t.w} |->
                              activeWatchers[p]]
    /\ pendingWrites' = MapDelAll(pendingWrites, {k \in DOMAIN pendingWrites : k[1] = t.w})
    /\ last' = Step("failed", t.w, t.src, AbsSegs(t.dest), NoPath, FALSE, 0)
    /\ emitted' = {}
    /\ UNCHANGED <<fs, dirs, nops, burst, world, ui>>

\* A failure that leaves an empty file at the target, and the directories
\* above it.
FailAfterCreate(t) ==
    /\ tasks' = tasks \ {t}
    /\ fs' = MapPut(fs, AbsSegs(t.dest), Raw(0, FALSE))
    /\ dirs' = dirs \cup Ancestors(AbsSegs(t.dest))
    /\ last' = Step("failed", t.w, t.src, AbsSegs(t.dest), NoPath, FALSE, 0)
    /\ emitted' = {}
    /\ UNCHANGED <<watchers, activeWatchers, pendingWrites, nops, burst, world, ui>>

Fail(t) ==
    /\ tasks' = tasks \ {t}
    /\ last' = Step("failed", t.w, t.src, AbsSegs(t.dest), NoPath, FALSE, 0)
    /\ emitted' = {}
    /\ UNCHANGED <<fs, dirs, watchers, activeWatchers, pendingWrites, nops, burst, world, ui>>

\* await fs.readFile(srcPath): the content at the time of the read; a file
\* that is gone rejects.
TaskRead(t) ==
    /\ t \in tasks /\ t.pc = "read"
    /\ IF t.src \in DOMAIN fs
       THEN /\ tasks' = (tasks \ {t}) \cup
                    {[t EXCEPT !.buf = fs[t.src],
                               !.pc = IF IsDocx(t.src) THEN "convert" ELSE "mkdir"]}
            /\ last' = Silent
            /\ emitted' = {}
            /\ UNCHANGED <<fs, dirs, watchers, activeWatchers, pendingWrites, nops, burst, world, ui>>
       ELSE Fail(t)

\* await mammoth.convertToMarkdown({ buffer }): rejects on bytes it cannot parse.
TaskConvert(t) ==
    /\ t \in tasks /\ t.pc = "convert"
    /\ IF ~t.buf.body.bad
       THEN /\ tasks' = (tasks \ {t}) \cup {[t EXCEPT !.buf = DocxOutput(t.src, t.buf), !.pc = "mkdir"]}
            /\ last' = Silent
            /\ emitted' = {}
            /\ UNCHANGED <<fs, dirs, watchers, activeWatchers, pendingWrites, nops, burst, world, ui>>
       ELSE Fail(t)

\* await fs.mkdir(path.dirname(destPath), { recursive: true })
TaskMkdir(t, ok) ==
    /\ t \in tasks /\ t.pc = "mkdir"
    /\ IF ok
       THEN /\ dirs' = dirs \cup Ancestors(AbsSegs(t.dest))
            /\ tasks' = (tasks \ {t}) \cup {[t EXCEPT !.pc = "open"]}
            /\ last' = Silent
            /\ emitted' = {}
            /\ UNCHANGED <<fs, watchers, activeWatchers, pendingWrites, nops, burst, world, ui>>
       ELSE Fail(t)

\* What the task writes: header + markdown, or header + content.
Output(t) == IF IsDocx(t.src) THEN t.buf ELSE TxtOutput(t.src, t.buf)

\* A file of length zero.
Empty == Raw(0, FALSE)

\* The bytes of a file without what an earlier write left behind them.
Bytes(c) == [hdr |-> c.hdr, body |-> c.body]

\* A write of data at offset 0 into a file that holds old: the bytes of old
\* beyond the length of data stay.  `longer` says that old is longer than
\* data; it is not when the file is empty or holds the very same bytes.
Overlay(data, old, longer) ==
    IF longer /\ old # Empty /\ old # data
    THEN [hdr |-> data.hdr, body |-> data.body, tail |-> Bytes(old)]
    ELSE data

\* await fs.writeFile(destPath, .., "utf-8"), its first part: the file is
\* opened with flag "w", which creates it or truncates it to length zero.
TaskOpen(t, ok) ==
    LET dest == AbsSegs(t.dest)
    IN  /\ t \in tasks /\ t.pc = "open"
        /\ IF ok
           THEN /\ fs' = MapPut(fs, dest, Empty)
                /\ pendingWrites' = AwaitWriteFinish(pendingWrites, dest, dest \in DOMAIN fs)
                /\ tasks' = (tasks \ {t}) \cup {[t EXCEPT !.pc = "write"]}
                /\ last' = Silent
                /\ emitted' = {}
                /\ UNCHANGED <<dirs, watchers, activeWatchers, nops, burst, world, ui>>
           ELSE Fail(t)

\* await fs.writeFile(destPath, .., "utf-8"), its second part: the data is
\* written from offset 0 of the opened file and the file is closed; a file
\* unlinked since the open stays unlinked.  Then `return true`: processFile
\* logs the conversion, convertFile returns { ok: true, outputPath } (last.ret).
TaskWrite(t, ok, longer) ==
    LET dest == AbsSegs(t.dest)
    IN  /\ t \in tasks /\ t.pc = "write"
        /\ IF ok
           THEN /\ IF dest \in DOMAIN fs
                   THEN /\ fs' = MapPut(fs, dest, Overlay(Output(t), fs[dest], longer))
                        /\ pendingWrites' = AwaitWriteFinish(pendingWrites, dest, TRUE)
                   ELSE UNCHANGED <<fs, pendingWrites>>
                /\ tasks' = tasks \ {t}
                /\ last' = Step("write", t.w, t.src, dest,
                                IF t.kind = "convertFile" THEN t.dest ELSE NoPath, TRUE, 0)
                /\ emitted' = {}
                /\ UNCHANGED <<dirs, watchers, activeWatchers, nops, burst, world, ui>>
           ELSE Fail(t)

(***************************************************************************)
(* The unlink handler, README.md 298-308: await fs.unlink(mirrorPath); a   *)
(* rejection (the mirror does not exist) is swallowed.                     *)
(***************************************************************************)
\* The unlink handler without its try/catch: the rejection of fs.unlink
\* leaves the handler and takes the session with it.
TaskUnlinkUncaught(t) ==
    LET dest == AbsSegs(t.dest)
        events == UnlinkEvents(pendingWrites, dest)
    IN  /\ t \in tasks /\ t.pc = "unlink"
        /\ IF dest \in DOMAIN fs
           THEN /\ Cardinality((tasks \ {t}) \cup Dispatch(events)) <= MaxTasks
                /\ fs' = MapDel(fs, dest)
                /\ pendingWrites' = CancelWait(pendingWrites, dest)
                /\ tasks' = (tasks \ {t}) \cup Dispatch(events)
                /\ emitted' = events
                /\ last' = Step("unlinked", t.w, t.src, dest, NoPath, TRUE, 0)
                /\ UNCHANGED <<dirs, watchers, activeWatchers, nops, burst, world, ui>>
           ELSE FailUncaught(t)

\* The unlink handler followed by the removal of the directory of the
\* mirror file when the file was the last one in it.
TaskUnlinkAndPrune(t) ==
    LET dest == AbsSegs(t.dest)
        events == UnlinkEvents(pendingWrites, dest)
    IN  /\ t \in tasks /\ t.pc = "unlink"
        /\ IF dest \in DOMAIN fs
           THEN /\ Cardinality((tasks \ {t}) \cup Dispatch(events)) <= MaxTasks
                /\ fs' = MapDel(fs, dest)
                /\ dirs' = IF \E f \in DOMAIN fs \ {dest} : Front(f) = Front(dest)
                           THEN dirs
                           ELSE dirs \ {Front(dest)}
                /\ pendingWrites' = CancelWait(pendingWrites, dest)
                /\ tasks' = (tasks \ {t}) \cup Dispatch(events)
                /\ emitted' = events
                /\ last' = Step("unlinked", t.w, t.src, dest, NoPath, TRUE, 0)
                /\ UNCHANGED <<watchers, activeWatchers, nops, burst, world, ui>>
           ELSE /\ tasks' = tasks \ {t}
                /\ emitted' = {}
                /\ last' = Step("unlinked", t.w, t.src, dest, NoPath, FALSE, 0)
                /\ UNCHANGED <<fs, dirs, watchers, activeWatchers, pendingWrites, nops, burst, world, ui>>

TaskUnlink(t) ==
    LET dest == AbsSegs(t.dest)
        events == UnlinkEvents(pendingWrites, dest)
    IN  /\ t \in tasks /\ t.pc = "unlink"
        /\ IF dest \in DOMAIN fs
           THEN /\ Cardinality((tasks \ {t}) \cup Dispatch(events)) <= MaxTasks
                /\ fs' = MapDel(fs, dest)
                /\ pendingWrites' = CancelWait(pendingWrites, dest)
                /\ tasks' = (tasks \ {t}) \cup Dispatch(events)
                /\ emitted' = events
                /\ last' = Step("unlinked", t.w, t.src, dest, NoPath, TRUE, 0)
                /\ UNCHANGED <<dirs, watchers, activeWatchers, nops, burst, world, ui>>
           ELSE /\ tasks' = tasks \ {t}
                /\ emitted' = {}
                /\ last' = Step("unlinked", t.w, t.src, dest, NoPath, FALSE, 0)
                /\ UNCHANGED <<fs, dirs, watchers, activeWatchers, pendingWrites, nops, burst, world, ui>>

(***************************************************************************)
(* The watcher emits "error", README.md 309-311: the listener logs the     *)
(* message with console.error and returns.  last.flag says that the error  *)
(* was logged.                                                             *)
(***************************************************************************)
\* watchDirectory without `.on("error", ..)`: an "error" emitted without a
\* listener is thrown by the emitter and ends the process, and with it
\* every session and every handler.
WatcherErrorUnhandled(w) ==
    /\ Live(w)
    /\ watchers' = [h \in Handles |-> [watchers[h] EXCEPT !.state = "closed", !.ready = FALSE,
                                                          !.awaiting = 0]]
    /\ activeWatchers' = EmptyMap
    /\ pendingWrites' = EmptyMap
    /\ tasks' = {}
    /\ emitted' = {}
    /\ last' = Step("watcherError", w, watchers[w].root.segs, <<>>, NoPath, FALSE, 0)
    /\ UNCHANGED <<fs, dirs, nops, burst, world, ui>>

WatcherError(w) ==
    /\ Live(w)
    /\ emitted' = {}
    /\ last' = Step("watcherError", w, watchers[w].root.segs, <<>>, NoPath, TRUE, 0)
    /\ UNCHANGED <<fs, dirs, watchers, activeWatchers, pendingWrites, tasks, nops, burst, world, ui>>

(***************************************************************************)
(* getWatchedDirs(), README.md 357-362.                                    *)
(***************************************************************************)
getWatchedDirs == {[path |-> dir, mirrorDir |-> AppendSuffix(dir)] : dir \in DOMAIN activeWatchers}

(***************************************************************************)
(* The specification.                                                      *)
(***************************************************************************)
Next ==
    \/ \E raw \in world.roots : WatchDir(raw)
    \/ \E raw \in world.roots : UnwatchDir(raw)
    \/ \E w \in Handles : CloseDone(w)
    \/ \E w \in Handles : InitialScan(w)
    \/ \E f \in world.files : \E bad \in world.bad : EnvWrite(f, bad)
    \/ \E f \in world.files : EnvDelete(f)
    \/ Tick
    \/ \E w \in Handles : \E f \in DOMAIN fs : Stabilize(w, f)
    \/ \E t \in tasks : TaskRead(t)
    \/ \E t \in tasks : TaskConvert(t)
    \/ \E t \in tasks : \E ok \in BOOLEAN : TaskMkdir(t, ok)
    \/ \E t \in tasks : \E ok \in BOOLEAN : TaskOpen(t, ok)
    \/ \E t \in tasks : \E ok \in BOOLEAN : \E longer \in BOOLEAN : TaskWrite(t, ok, longer)
    \/ \E t \in tasks : TaskUnlink(t)

Spec == Init /\ [][Next]_vars

\* One directory, named in two spellings, and one file in it.
InitOne == Init /\ world = WorldOne

SpecOne == InitOne /\ [][Next]_vars

\* The same with the scheduling of node: the scan of a new watcher is
\* carried out, and an await whose operation has ended is resumed.
Fairness ==
    /\ WF_vars(\E w \in Handles : InitialScan(w))
    /\ WF_vars(\E t \in tasks : TaskRead(t))
    /\ WF_vars(\E t \in tasks : TaskConvert(t))
    /\ WF_vars(\E t \in tasks : \E ok \in BOOLEAN : TaskMkdir(t, ok))
    /\ WF_vars(\E t \in tasks : \E ok \in BOOLEAN : TaskOpen(t, ok))
    /\ WF_vars(\E t \in tasks : \E ok \in BOOLEAN : \E longer \in BOOLEAN : TaskWrite(t, ok, longer))
    /\ WF_vars(\E t \in tasks : TaskUnlink(t))

FairSpecOne == SpecOne /\ Fairness

\* Two directories with a file each.
InitTwo == Init /\ world = WorldTwo

SpecTwo == InitTwo /\ [][Next]_vars

\* Two directories and one file, with watchers that report errors.
NextFault ==
    \/ Next
    \/ \E w \in Handles : WatcherError(w)

InitFault == Init /\ world = WorldFault

SpecFault == InitFault /\ [][NextFault]_vars

InitNames == Init /\ world = WorldNames

SpecNames == InitNames /\ [][Next]_vars

InitNested == Init /\ world = WorldNested

SpecNested == InitNested /\ [][Next]_vars

InitStems == Init /\ world = WorldStems

SpecStems == InitStems /\ [][Next]_vars

\* The directory "/", whose mirror root lies below it.
InitRoot == Init /\ world = WorldRoot

SpecRoot == InitRoot /\ [][Next]_vars

\* One directory with files of a supported and of an unsupported type.
InitTypes == Init /\ world = WorldTypes

SpecTypes == InitTypes /\ [][Next]_vars

(***************************************************************************)
(* convertFile(filePath, outputDir), README.md 370-389: the extension test *)
(* returns the failure at once; otherwise the call awaits convertDocx or   *)
(* convertTxt, whose steps are the steps of a task of no watcher (w = 0).  *)
(* The failure of the conversion is last.op = "failed", its success        *)
(* last.op = "write" with last.ret the outputPath returned.                *)
(***************************************************************************)
\* path.join(path.dirname(filePath), parsed.name + ".md"): outputDir ignored.
OutputPathBesideSource(filePath, outputDir) ==
    Str(filePath.abs, Front(filePath.segs) \o << StemOf(Last(filePath.segs)) \o <<".", "md">> >>, FALSE)

\* path.join(outputDir || path.dirname(filePath), parsed.name + ".md")
OutputPath(filePath, outputDir) ==
    LET dir == IF outputDir = NoPath
               THEN Str(filePath.abs, Front(filePath.segs), FALSE)
               ELSE outputDir
    IN  Str(dir.abs, dir.segs \o << StemOf(Last(filePath.segs)) \o <<".", "md">> >>, FALSE)

\* convertFile without the extension test: every file is read as text.
ConvertFileUnchecked(filePath, outputDir) ==
    LET src == AbsSegs(filePath)
        t == [w |-> 0, kind |-> "convertFile", src |-> src,
              dest |-> OutputPath(filePath, outputDir), pc |-> "read",
              buf |-> Raw(0, FALSE), stamp |-> 0, out |-> outputDir]
    IN  /\ Cardinality(tasks \cup {t}) <= MaxTasks
        /\ tasks' = tasks \cup {t}
        /\ last' = Silent
        /\ emitted' = {}
        /\ UNCHANGED <<fs, dirs, watchers, activeWatchers, pendingWrites, nops, burst, world, ui>>

ConvertFile(filePath, outputDir) ==
    LET src == AbsSegs(filePath)
        t == [w |-> 0, kind |-> "convertFile", src |-> src,
              dest |-> OutputPath(filePath, outputDir), pc |-> "read",
              buf |-> Raw(0, FALSE), stamp |-> 0, out |-> outputDir]
    IN  /\ IF ~IsConvertible(src)
           THEN /\ last' = Step("convertFile", 0, src, <<>>, NoPath, FALSE, 0)
                /\ UNCHANGED tasks
           ELSE /\ Cardinality(tasks \cup {t}) <= MaxTasks
                /\ tasks' = tasks \cup {t}
                /\ last' = Silent
        /\ emitted' = {}
        /\ UNCHANGED <<fs, dirs, watchers, activeWatchers, pendingWrites, nops, burst, world, ui>>

\* The environment copies file f to g: g holds the bytes of f.
EnvCopy(f, g) ==
    /\ nops < MaxFsOps
    /\ f \in DOMAIN fs /\ g # f
    /\ ExtOf(g) = ExtOf(f)
    /\ nops' = nops + 1
    /\ fs' = MapPut(fs, g, fs[f])
    /\ dirs' = dirs \cup Ancestors(g)
    /\ pendingWrites' = AwaitWriteFinish(pendingWrites, g, g \in DOMAIN fs)
    /\ burst' = Touch(burst, pendingWrites, g)
    /\ emitted' = {}
    /\ last' = Arrival(g)
    /\ UNCHANGED <<watchers, activeWatchers, tasks, world, ui>>

\* On-demand conversion next to a registry that may hold a session; the
\* events of the session are the subject of the other specifications.
NextDemand ==
    \/ \E f \in world.files : \E out \in world.outs : ConvertFile(Str(TRUE, f, FALSE), out)
    \/ \E raw \in world.roots : WatchDir(raw)
    \/ \E f \in world.files : \E bad \in world.bad : EnvWrite(f, bad)
    \/ \E f \in world.files : EnvDelete(f)
    \/ \E t \in tasks : TaskRead(t)
    \/ \E t \in tasks : TaskConvert(t)
    \/ \E t \in tasks : \E ok \in BOOLEAN : TaskMkdir(t, ok)
    \/ \E t \in tasks : \E ok \in BOOLEAN : TaskOpen(t, ok)
    \/ \E t \in tasks : \E ok \in BOOLEAN : \E longer \in BOOLEAN : TaskWrite(t, ok, longer)

InitDemand == Init /\ world = WorldDemand

SpecDemand == InitDemand /\ [][NextDemand]_vars

\* The same with an environment that also copies files of one type.
NextTwins ==
    \/ NextDemand
    \/ \E f \in world.files : \E g \in world.files : EnvCopy(f, g)

InitTwins == Init /\ world = WorldTwins

SpecTwins == InitTwins /\ [][NextTwins]_vars

\* A session together with on-demand conversions.
NextRace ==
    \/ Next
    \/ \E f \in world.files : \E out \in world.outs : ConvertFile(Str(TRUE, f, FALSE), out)

InitRace == Init /\ world = WorldRace

SpecRace == InitRace /\ [][NextRace]_vars

InitFrame == Init /\ world = WorldFrame

SpecFrame == InitFrame /\ [][NextRace]_vars

(***************************************************************************)
(* The converter routes of server.js, part_000 314-363.  The value of a    *)
(* body field is a record [pad, p]: p is the path string it holds without  *)
(* surrounding white space (NoPath when the field is absent, empty or not  *)
(* a string) and pad says whether white space surrounds it.  A request     *)
(* that is turned away is answered 400 (last.op = "http400"); the answer   *)
(* of any other request is the result of the function called.              *)
(***************************************************************************)
\* The characters the first test of sanitizePath looks for; the tokens
\* "backtick" and "backslash" stand for those two characters.
Blocked == {";", "&", "|", "backtick", "$", "(", ")", "{", "}", "[", "]", "<", ">", "!", "backslash"}

\* p.includes(".."): a token "..", or two "." in a row.
HasDotDot(seg) ==
    \/ \E i \in 1..Len(seg) : seg[i] = ".."
    \/ \E i \in 1..(Len(seg) - 1) : seg[i] = "." /\ seg[i + 1] = "."

\* sanitizePath(p), part_000 38-44: null (NoPath) or p.trim().  The strings
\* of the model are shorter than 500 characters.
sanitizePath(v) ==
    IF v.p = NoPath THEN NoPath
    ELSE IF \E i \in 1..Len(v.p.segs) : \E j \in 1..Len(v.p.segs[i]) : v.p.segs[i][j] \in Blocked
    THEN NoPath
    ELSE IF \E i \in 1..Len(v.p.segs) : HasDotDot(v.p.segs[i]) THEN NoPath
    ELSE v.p

\* res.status(400).json({ error: "Invalid path" }) / "Invalid file path".
Reject ==
    /\ last' = Step("http400", 0, <<>>, <<>>, NoPath, FALSE, 0)
    /\ emitted' = {}
    /\ UNCHANGED <<fs, dirs, watchers, activeWatchers, pendingWrites, tasks, nops, burst, world, ui>>

\* POST /api/converter/watch
PostWatch(path) ==
    LET dirPath == sanitizePath(path)
    IN  IF dirPath = NoPath THEN Reject ELSE WatchDir(dirPath)

\* POST /api/converter/unwatch, up to the await of unwatchDir.
PostUnwatch(path) ==
    LET dirPath == sanitizePath(path)
    IN  IF dirPath = NoPath THEN Reject ELSE UnwatchDir(dirPath)

\* POST /api/converter/convert, up to the await of convertFile: outputDir
\* is sanitized when the field is truthy, and the result is not tested.
PostConvert(file, outputDir) ==
    LET f == sanitizePath(file)
        out == IF outputDir.p # NoPath THEN sanitizePath(outputDir) ELSE NoPath
    IN  IF f = NoPath THEN Reject ELSE ConvertFile(f, out)

NextRoutes ==
    \/ \E v \in world.paths : PostWatch(v)
    \/ \E v \in world.paths : PostUnwatch(v)
    \/ \E w \in Handles : CloseDone(w)
    \/ \E v \in world.reqFiles : \E o \in world.reqOuts : PostConvert(v, o)
    \/ \E f \in world.files : \E bad \in world.bad : EnvWrite(f, bad)
    \/ \E t \in tasks : TaskRead(t)
    \/ \E t \in tasks : TaskConvert(t)
    \/ \E t \in tasks : \E ok \in BOOLEAN : TaskMkdir(t, ok)
    \/ \E t \in tasks : \E ok \in BOOLEAN : TaskOpen(t, ok)
    \/ \E t \in tasks : \E ok \in BOOLEAN : \E longer \in BOOLEAN : TaskWrite(t, ok, longer)

InitRoutes == Init /\ world = WorldRoutes

SpecRoutes == InitRoutes /\ [][NextRoutes]_vars

(***************************************************************************)
(* The search of the page, app.js 63-73, 165-235 and 351-373.  A request   *)
(* in flight is [mode, stage, aborted]: stage "fetch" while api awaits     *)
(* fetch, "json" while it awaits res.json() of an ok response and          *)
(* "errorJson" while it awaits res.json() of a response that is not ok.    *)
(***************************************************************************)
MaxSearches == 3

Queries == {"", "q"}

Modes == {"fast", "deep"}

\* A step of the page: the server side is left alone.
Page(u) ==
    /\ ui' = u
    /\ UNCHANGED <<fs, dirs, watchers, activeWatchers, pendingWrites, tasks, nops,
                   burst, emitted, last, world>>

\* showSearchActions: Fast and Deep are back, the Cancel button is removed.
showSearchActions(u) == [u EXCEPT !.buttons = "search"]

\* showCancelButton: Fast and Deep are hidden, the Cancel button is there.
showCancelButton(u) == [u EXCEPT !.buttons = "cancel"]

\* cancelSearch with the abort() left out.
cancelSearchWithoutAbort(u) ==
    IF u.searchAbortController # 0
    THEN [u EXCEPT !.searchAbortController = 0]
    ELSE u

\* cancelSearch: abort the signal of the controller and forget the controller.
cancelSearch(u) ==
    IF u.searchAbortController # 0
    THEN [u EXCEPT !.reqs = [r \in DOMAIN u.reqs |->
                                IF r = u.searchAbortController
                                THEN [u.reqs[r] EXCEPT !.aborted = TRUE]
                                ELSE u.reqs[r]],
                   !.searchAbortController = 0]
    ELSE u

\* doSearch without the test of isSearching.
doSearchWhileSearching(u, mode) ==
    IF u.q = ""
    THEN [u EXCEPT !.did = "ignored"]
    ELSE showCancelButton(
           [u EXCEPT !.isSearching = TRUE,
                     !.searchAbortController = u.sent + 1,
                     !.sent = u.sent + 1,
                     !.reqs = MapPut(u.reqs, u.sent + 1,
                                     [mode |-> mode, stage |-> "fetch", aborted |-> FALSE]),
                     !.view = "blank",
                     !.loading = mode,
                     !.did = "search"])

\* doSearch up to its await: nothing happens for an empty query or while a
\* search is on; else the request is sent with the new controller's signal.
doSearch(u, mode) ==
    IF u.q = "" \/ u.isSearching
    THEN [u EXCEPT !.did = "ignored"]
    ELSE showCancelButton(
           [u EXCEPT !.isSearching = TRUE,
                     !.searchAbortController = u.sent + 1,
                     !.sent = u.sent + 1,
                     !.reqs = MapPut(u.reqs, u.sent + 1,
                                     [mode |-> mode, stage |-> "fetch", aborted |-> FALSE]),
                     !.view = "blank",
                     !.loading = mode,
                     !.did = "search"])

\* The user edits the search input, which has the focus.
Input(q) ==
    /\ ui.focus
    /\ q # ui.q
    /\ Page([ui EXCEPT !.q = q, !.did = "input"])

\* The user clicks into the search input.
ClickInput ==
    /\ ~ui.focus
    /\ Page([ui EXCEPT !.focus = TRUE, !.did = "focus"])

\* keydown on the search input: Enter searches, deep with Shift.
KeyEnter(shift) ==
    /\ ui.focus
    /\ ui.sent < MaxSearches
    /\ Page(doSearch(ui, IF shift THEN "deep" ELSE "fast"))

\* keydown on the document, "/" outside the search input: focus it.
KeySlash ==
    /\ ~ui.focus
    /\ Page([ui EXCEPT !.focus = TRUE, !.did = "focus"])

\* keydown on the document, Escape: cancel a search, else blur the input.
KeyEscape ==
    IF ui.isSearching
    THEN Page([cancelSearch(ui) EXCEPT !.did = "escape"])
    ELSE IF ui.focus
         THEN Page([ui EXCEPT !.focus = FALSE, !.did = "blur"])
         ELSE Page([ui EXCEPT !.did = "ignored"])

\* click on Fast or Deep, which are displayed; the button takes the focus.
ClickSearch(mode) ==
    /\ ui.buttons = "search"
    /\ ui.sent < MaxSearches
    /\ Page(doSearch([ui EXCEPT !.focus = FALSE], mode))

\* click on the Cancel button, which exists; the button takes the focus.
ClickCancel ==
    /\ ui.buttons = "cancel"
    /\ Page([cancelSearch([ui EXCEPT !.focus = FALSE]) EXCEPT !.did = "clickCancel"])

\* fetch resolves with a response, ok or not: api goes on to res.json().
Response(r, ok) ==
    /\ r \in DOMAIN ui.reqs
    /\ ui.reqs[r].stage = "fetch"
    /\ ~ui.reqs[r].aborted
    /\ Page([ui EXCEPT !.reqs[r].stage = IF ok THEN "json" ELSE "errorJson",
                       !.did = "response"])

\* What the awaits of api can come to for request r:
\*   "results", "empty"  the body of an ok response was parsed
\*   "AbortError"        fetch or res.json() rejected because of the abort
\*   "Error"             fetch failed, the body of an ok response could not
\*                       be parsed, or the response was not ok (there the
\*                       rejection of res.json() is replaced by {})
Outcomes(r) ==
    LET req == ui.reqs[r]
    IN  IF req.stage = "errorJson" THEN {"Error"}
        ELSE IF req.aborted THEN {"AbortError"}
        ELSE IF req.stage = "fetch" THEN {"Error"}
        ELSE {"results", "empty", "Error"}

\* doSearch after its await: renderResults or the catch, then the finally.
Settle(r, outcome) ==
    /\ r \in DOMAIN ui.reqs
    /\ outcome \in Outcomes(r)
    /\ Page(showSearchActions(
              [ui EXCEPT !.reqs = MapDel(ui.reqs, r),
                         !.view = IF outcome \in {"results", "empty"} THEN outcome ELSE @,
                         !.toast = CASE outcome = "AbortError" -> "Search cancelled"
                                     [] outcome = "Error" -> "Search failed"
                                     [] OTHER -> @,
                         !.isSearching = FALSE,
                         !.searchAbortController = 0,
                         !.loading = "hidden",
                         !.did = outcome]))

NextUi ==
    \/ \E q \in Queries : Input(q)
    \/ ClickInput
    \/ \E shift \in BOOLEAN : KeyEnter(shift)
    \/ KeySlash
    \/ KeyEscape
    \/ \E mode \in Modes : ClickSearch(mode)
    \/ ClickCancel
    \/ \E r \in DOMAIN ui.reqs : \E ok \in BOOLEAN : Response(r, ok)
    \/ \E r \in DOMAIN ui.reqs : \E outcome \in Outcomes(r) : Settle(r, outcome)

InitUi == Init /\ world = WorldPage

SpecUi == InitUi /\ [][NextUi]_vars

\* An aborted fetch or body read rejects, and the continuation of doSearch
\* then runs; a request that was not aborted may stay unanswered.
FairnessUi ==
    \A r \in 1..MaxSearches :
        WF_vars(/\ r \in DOMAIN ui.reqs
                /\ ui.reqs[r].aborted
                /\ \E outcome \in Outcomes(r) : Settle(r, outcome))

FairSpecUi == SpecUi /\ FairnessUi

(***************************************************************************)
(* Notions the properties share.                                           *)
(***************************************************************************)
\* The canonical path a watchDir / unwatchDir step acted on.
PathOf(l) == Str(TRUE, l.src, FALSE)

NotClosed(w) == watchers[w].state # "closed"

\* The file a session's mirror of f is stored in.
MirrorFile(w, f) == AbsSegs(getMirrorPath(watchers[w].root, f))

\* The directory a session's mirror files are stored below.
MirrorRoot(w) == AbsSegs(AppendSuffix(watchers[w].root))

\* What a successful conversion of content c of file f writes.
Converted(f, c) == IF IsDocx(f) THEN DocxOutput(f, c) ELSE TxtOutput(f, c)

\* The convertible files present under the source root of session w.
Sources(w) == {f \in DOMAIN fs : Watches(watchers[w].root, f) /\ IsConvertible(f)}

\* An active session: registered, watching, its initial scan done.
Active(w) == Live(w) /\ watchers[w].ready

\* Nothing is left to do: every watcher has scanned, no event is held back
\* and no handler is in flight.
Quiescent ==
    /\ tasks = {}
    /\ pendingWrites = EmptyMap
    /\ \A w \in Handles : Live(w) => watchers[w].ready

MirrorsCurrent ==
    \A w \in Handles : Active(w) =>
        \A f \in Sources(w) :
            /\ MirrorFile(w, f) \in DOMAIN fs
            /\ fs[MirrorFile(w, f)] = Converted(f, fs[f])

(***************************************************************************)
(* C1.  For a path P that is not registered, watchDir(P) returns           *)
(* already = false and creates one watcher; a watchDir(P) that directly    *)
(* follows it returns already = true with the same mirrorDir, creates no   *)
(* watcher and leaves the registry as it is, so that exactly one watcher   *)
(* handle exists for P.                                                    *)
(***************************************************************************)
C1_Step ==
    last'.op = "watchDir" =>
        /\ PathOf(last') \notin DOMAIN activeWatchers =>
                /\ ~last'.flag
                /\ Len(watchers') = Len(watchers) + 1
                /\ PathOf(last') \in DOMAIN activeWatchers'
        /\ (last.op = "watchDir" /\ last.src = last'.src /\ ~last.flag) =>
                /\ last'.flag
                /\ last'.ret = last.ret
                /\ watchers' = watchers
                /\ activeWatchers' = activeWatchers
                /\ Cardinality({w \in Handles : watchers[w].root = PathOf(last')
                                                  /\ NotClosed(w)}) = 1

C1_WatchDirTwice == [][C1_Step]_vars

\* The second of two consecutive calls has returned, the two calls spelling
\* the directory differently or alike.
C1_SecondCallReturned ==
    /\ last.op = "watchDir" /\ last.k = 2 /\ last.flag
    /\ last.ret = AppendSuffix(PathOf(last))
    /\ PathOf(last) \in DOMAIN activeWatchers

(***************************************************************************)
(* C2.  Once unwatchDir(P) has returned, the session that watched P writes *)
(* and deletes nothing in its mirror tree: a handler that writes or        *)
(* removes a mirror file belongs to a watcher that is not closed.          *)
(***************************************************************************)
C2_NoMirrorEffectAfterUnwatch ==
    (last.op \in {"write", "unlinked"} /\ last.flag) => NotClosed(last.w)

(***************************************************************************)
(* C3.  Mirror consistency for present files: once every convertible file  *)
(* present under the root of an active session has a mirror holding the    *)
(* conversion of its content, a step that leaves nothing to do (every      *)
(* watcher has scanned, no event is held back, no handler is in flight)    *)
(* leaves every such mirror in place and current.                          *)
(***************************************************************************)
C3_Step == (MirrorsCurrent /\ Quiescent') => MirrorsCurrent'

C3_MirrorStaysCurrent == [][C3_Step]_vars

(***************************************************************************)
(* C4.  Mirror consistency for absent files: when nothing is left to do in *)
(* an active session, a handler of that session that has just written a    *)
(* mirror file wrote it for a source file that exists.                     *)
(***************************************************************************)
C4_NoMirrorOfDeletedFile ==
    (last.op = "write" /\ Active(last.w) /\ Quiescent) => last.src \in DOMAIN fs

(***************************************************************************)
(* C5.  Debounce: within one burst of writes to a path (each write less    *)
(* than stabilityThreshold after the one before) a watcher calls           *)
(* processFile for the path once: the call that ends the wait is not       *)
(* preceded by another call of the same watcher in the same burst.         *)
(***************************************************************************)
C5_OneDispatchPerBurst == ~(last.op = "stabilize" /\ last.flag)

(***************************************************************************)
(* C6.  Per-path serialization: within one session no two processFile      *)
(* calls for the same path are in flight at the same time.                 *)
(***************************************************************************)
C6_OneConversionInFlight ==
    \A s, t \in tasks :
        (s.kind = "process" /\ t.kind = "process" /\ s.w = t.w /\ s.src = t.src) => s = t

(***************************************************************************)
(* C7.  Registry uniqueness: every watcher that is not closed is the one   *)
(* registered under its canonical path, so at most one watcher that is not *)
(* closed exists per canonical path, whatever the order of the watchDir    *)
(* and unwatchDir calls, overlapping unwatchDir calls included.            *)
(***************************************************************************)
C7_OneLiveWatcherPerPath ==
    /\ \A w \in Handles : NotClosed(w) =>
            /\ watchers[w].root \in DOMAIN activeWatchers
            /\ activeWatchers[watchers[w].root] = w
    /\ \A v, w \in Handles :
            (NotClosed(v) /\ NotClosed(w) /\ watchers[v].root = watchers[w].root) => v = w

\* Two unwatchDir calls for the same path overlap, on the second watcher
\* created for that path.
C7_OverlappingUnwatch ==
    \E v, w \in Handles :
        /\ v # w /\ watchers[v].root = watchers[w].root
        /\ ~NotClosed(v)
        /\ watchers[w].awaiting = 2

(***************************************************************************)
(* C8.  Every entry of getWatchedDirs() gives as mirrorDir its path with   *)
(* "_qmd_converted" appended.                                              *)
(***************************************************************************)
\* The string p + MIRROR_SUFFIX, for a path p without a trailing slash.
PathPlusSuffix(p) ==
    IF p.segs = <<>>
    THEN Str(p.abs, << <<MIRROR_SUFFIX>> >>, FALSE)
    ELSE Str(p.abs, Front(p.segs) \o << Last(p.segs) \o <<MIRROR_SUFFIX>> >>, FALSE)

C8_MirrorDirIsPathPlusSuffix ==
    \A e \in getWatchedDirs : e.mirrorDir = PathPlusSuffix(e.path)

(***************************************************************************)
(* C9.  Loop-avoidance: no add, change or unlink event is handed to the    *)
(* listeners of a session for a path under that session's own mirror root, *)
(* and no handler of the session runs for such a path.                     *)
(***************************************************************************)
C9_NoEventUnderOwnMirrorRoot ==
    /\ \A e \in emitted : ~IsPrefix(MirrorRoot(e.w), e.src)
    /\ \A t \in tasks : ~IsPrefix(MirrorRoot(t.w), t.src)

\* A watcher has just emitted events while a file placed by hand and a file
\* written by the session lie under its mirror root, inside what it watches.
C9_MirrorFilesInScope ==
    \E w \in Handles :
        /\ Active(w)
        /\ \E e \in emitted : e.w = w
        /\ FileMq \in DOMAIN fs
        /\ IsPrefix(MirrorRoot(w), FileMq) /\ InScope(watchers[w].root, FileMq)
        /\ \E f \in DOMAIN fs : f # FileMq /\ IsPrefix(MirrorRoot(w), f)
                                  /\ InScope(watchers[w].root, f)

(***************************************************************************)
(* C10.  Failure isolation: a step in which a conversion or a mirror write *)
(* fails ends the failing handler and changes nothing else: the watchers   *)
(* and the registry (the failing session stays registered and watching),   *)
(* the events held back, the other handlers in flight of every session and *)
(* the files are as before.                                                *)
(***************************************************************************)
C10_Step ==
    last'.op = "failed" =>
        /\ watchers' = watchers
        /\ activeWatchers' = activeWatchers
        /\ pendingWrites' = pendingWrites
        /\ fs' = fs
        /\ tasks' \subseteq tasks
        /\ \A t \in tasks \ tasks' : t.w = last'.w /\ t.src = last'.src
        /\ Cardinality(tasks \ tasks') = 1
        /\ Live(last'.w) => watchers[last'.w].root \in DOMAIN activeWatchers'

C10_FailureIsolated == [][C10_Step]_vars

\* A conversion has just failed in a session that is registered and
\* watching, while a handler of another session is in flight.
C10_FailedBesideOtherSession ==
    /\ last.op = "failed"
    /\ Active(last.w)
    /\ activeWatchers[watchers[last.w].root] = last.w
    /\ \E t \in tasks : t.w # last.w /\ Active(t.w)


(***************************************************************************)
(* C11.  From the call of unwatchDir(P) on, no event of the source tree    *)
(* starts a dispatch of P's session: every event handed to a listener, and *)
(* every handler that starts, belongs to a watcher whose close() has not   *)
(* been called.  Handlers already in flight are not constrained.           *)
(***************************************************************************)
C11_Step ==
    /\ \A e \in emitted' : watchers[e.w].state = "open"
    /\ \A t \in tasks' \ tasks :
            t.pc \in {"read", "unlink"} => watchers[t.w].state = "open"

C11_NoDispatchAfterUnwatch == [][C11_Step]_vars

\* A file below P changed while close() was pending and a handler of the
\* stopped session was still in flight.
C11_LateEventDiscarded ==
    /\ last.op = "late"
    /\ \E w \in Stopped(last.src) :
            /\ watchers[w].state = "closing"
            /\ \E t \in tasks : t.w = w


(***************************************************************************)
(* C12.  unwatchDir is idempotent.  A call that finds no session for the   *)
(* canonical form of its path returns at once and changes neither the      *)
(* registry nor any watcher nor anything else; a call awaits only when a   *)
(* session is registered; when a call returns, the path is unwatched; and  *)
(* a call that directly follows a returned call on the same path is such a *)
(* no-op.                                                                  *)
(***************************************************************************)
C12_Step ==
    /\ last'.op = "unwatchCall" => PathOf(last') \in DOMAIN activeWatchers
    /\ last'.op = "unwatchReturn" =>
        /\ PathOf(last') \notin DOMAIN activeWatchers'
        /\ ~last'.flag =>
                /\ PathOf(last') \notin DOMAIN activeWatchers
                /\ UNCHANGED <<watchers, activeWatchers, pendingWrites, tasks, fs, dirs>>
    /\ (last.op = "unwatchReturn" /\ last'.op \in {"unwatchCall", "unwatchReturn"}
            /\ last'.src = last.src) =>
        /\ last'.op = "unwatchReturn"
        /\ ~last'.flag

C12_UnwatchDirIdempotent == [][C12_Step]_vars

\* A call on a path that was watched and has been unwatched has returned.
C12_SecondUnwatchReturned ==
    /\ last.op = "unwatchReturn" /\ ~last.flag
    /\ PathOf(last) \notin DOMAIN activeWatchers
    /\ \E w \in Handles : watchers[w].root = PathOf(last) /\ watchers[w].state = "closed"


(***************************************************************************)
(* C13.  convertFile on a file whose extension, lowered, is neither .docx  *)
(* nor .txt returns the failure { ok: false, error } in the step of the    *)
(* call: no conversion is started for such a file (nothing is read), and   *)
(* the file system, the directories, the registry and the watchers are as  *)
(* before.                                                                 *)
(***************************************************************************)
C13_Step ==
    /\ \A t \in tasks' :
            t.kind = "convertFile" => ExtOf(t.src) \in { <<".", "docx">>, <<".", "txt">> }
    /\ last'.op = "convertFile" =>
        /\ ExtOf(last'.src) \notin { <<".", "docx">>, <<".", "txt">> }
        /\ ~last'.flag
        /\ UNCHANGED <<fs, dirs, tasks, activeWatchers, watchers, pendingWrites>>

C13_UnsupportedTypeRejected == [][C13_Step]_vars

\* convertFile("/a/report.pdf", ..) has returned its failure; the file
\* exists and a session is registered.
C13_PdfRejected ==
    /\ last.op = "convertFile" /\ ~last.flag
    /\ last.src = FilePdf
    /\ FilePdf \in DOMAIN fs
    /\ DOMAIN activeWatchers # {}


(***************************************************************************)
(* C14.  Mirror path mapping: the mirror path a handler of a session with  *)
(* source root R computes for a file F below R is R + "_qmd_converted",    *)
(* joined with the directory of F relative to R and the stem of F plus     *)
(* ".md"; and it lies below the mirrorDir getWatchedDirs reports for R.    *)
(***************************************************************************)
C14_MirrorPathMapping ==
    \A t \in tasks : t.kind # "convertFile" =>
        LET R == watchers[t.w].root
            relative == SubSeq(t.src, Len(R.segs) + 1, Len(t.src))
            mirrorRoot == PathPlusSuffix(R)
        IN  /\ t.dest = Str(mirrorRoot.abs,
                            mirrorRoot.segs \o Front(relative)
                                \o << StemOf(Last(relative)) \o <<".", "md">> >>,
                            FALSE)
            /\ \A e \in getWatchedDirs : e.path = R =>
                    /\ e.mirrorDir.abs = t.dest.abs
                    /\ IsPrefix(e.mirrorDir.segs, t.dest.segs)


(***************************************************************************)
(* C15.  Every successful conversion writes, from the start of the output  *)
(* file, one comment line naming the base name of the source, then one     *)
(* empty line, then the body; the body                                     *)
(* of a .txt source is the text that was read, so that removing the two    *)
(* header lines from the output gives the source text back; the body of a  *)
(* .docx source is mammoth's markdown.                                     *)
(***************************************************************************)
\* The text without its first two lines.
StripHeader(c) == [hdr |-> SubSeq(c.hdr, 3, Len(c.hdr)), body |-> c.body]

C15_Step ==
    \A t \in tasks \ tasks' :
        (last'.op = "write" /\ t.pc = "write" /\ t.src = last'.src /\ last'.dest \in DOMAIN fs') =>
            LET out == Bytes(fs'[last'.dest])
            IN  /\ Len(out.hdr) >= 2
                /\ out.hdr[1] = <<"<!-- Converted from: ">> \o Last(t.src) \o <<" -->">>
                /\ out.hdr[2] = <<>>
                /\ ExtOf(t.src) = <<".", "txt">> => StripHeader(out) = t.buf
                /\ ExtOf(t.src) = <<".", "docx">> =>
                        /\ StripHeader(out).hdr = <<>>
                        /\ StripHeader(out).body.md

C15_HeaderThenBody == [][C15_Step]_vars

\* The conversion of a .txt file has been written, and the output without
\* its header is the text of the source.
C15_TxtRoundTrip ==
    /\ last.op = "write"
    /\ ExtOf(last.src) = <<".", "txt">>
    /\ last.src \in DOMAIN fs
    /\ last.dest \in DOMAIN fs
    /\ fs[last.dest] = Bytes(fs[last.dest])
    /\ StripHeader(fs[last.dest]) = fs[last.src]


(***************************************************************************)
(* C16.  Determinism.  Two conversions about to write, of the same kind    *)
(* and of identical input bytes, write identical content when their        *)
(* sources have the same base name, wherever the sources and the outputs   *)
(* lie.  The statement without the condition on the base name is           *)
(* C16_SameBytesSameOutput.                                                *)
(***************************************************************************)
\* The bytes a task at its write has read: the text of a .txt, and for a
\* .docx the bytes mammoth was given.
InputOf(t) == IF IsDocx(t.src) THEN [t.buf.body EXCEPT !.md = FALSE] ELSE t.buf

Writing == {t \in tasks : t.pc = "write"}

C16_SameBytesAndNameSameOutput ==
    \A s \in Writing : \A t \in Writing :
        (ExtOf(s.src) = ExtOf(t.src) /\ InputOf(s) = InputOf(t) /\ Last(s.src) = Last(t.src))
            => Output(s) = Output(t)

C16_SameBytesSameOutput ==
    \A s \in Writing : \A t \in Writing :
        (ExtOf(s.src) = ExtOf(t.src) /\ InputOf(s) = InputOf(t)) => Output(s) = Output(t)

\* Two conversions of the same bytes are about to write: of files of one
\* base name in different directories.
C16_TwoConversionsOfSameBytes ==
    \E s \in Writing : \E t \in Writing :
        /\ s.src # t.src /\ Last(s.src) = Last(t.src)
        /\ ExtOf(s.src) = ExtOf(t.src) /\ InputOf(s) = InputOf(t)
        /\ Output(s) = Output(t)


(***************************************************************************)
(* C17.  An unlink handler whose mirror file does not exist ends without   *)
(* an error and without an effect: the files, the directories, the         *)
(* watchers, the registry and the events held back are as before, and only *)
(* the handler itself is gone.                                             *)
(***************************************************************************)
C17_Step ==
    \A t \in tasks \ tasks' :
        (t.pc = "unlink" /\ AbsSegs(t.dest) \notin DOMAIN fs) =>
            /\ last'.op = "unlinked" /\ ~last'.flag
            /\ tasks' = tasks \ {t}
            /\ UNCHANGED <<fs, dirs, watchers, activeWatchers, pendingWrites>>

C17_UnlinkOfUnmirroredIsNoOp == [][C17_Step]_vars

\* Such a handler has ended; its session is registered and active.
C17_SessionActiveAfterUnlink ==
    /\ last.op = "unlinked" /\ ~last.flag
    /\ last.dest \notin DOMAIN fs
    /\ Active(last.w)
    /\ watchers[last.w].root \in DOMAIN activeWatchers
    /\ activeWatchers[watchers[last.w].root] = last.w


(***************************************************************************)
(* C18.  Initial scan.  When watchDir starts a session w while a           *)
(* convertible file f that the ignore rules do not exclude is present      *)
(* below its root with content v, then, unless the session is stopped      *)
(* before its scan, the content of f is replaced or f is deleted, or the   *)
(* conversion of f fails, the conversion of that content is eventually     *)
(* written to the mirror path of f.                                        *)
(***************************************************************************)
C18_Started(w, f, v) ==
    /\ last.op = "watchDir" /\ ~last.flag /\ last.w = w
    /\ f \in Sources(w)
    /\ fs[f].body.ver = v

C18_Mirrored(w, f, v) ==
    /\ w \in Handles
    /\ MirrorFile(w, f) \in DOMAIN fs
    /\ fs[MirrorFile(w, f)].hdr = << <<"<!-- Converted from: ">> \o Last(f) \o <<" -->">>, <<>> >>
    /\ fs[MirrorFile(w, f)].body.ver = v

C18_Excused(w, f, v) ==
    \/ f \notin DOMAIN fs
    \/ fs[f].body.ver # v
    \/ last.op = "failed" /\ last.w = w /\ last.src = f
    \/ w \in Handles /\ watchers[w].state # "open" /\ ~\E t \in tasks : t.w = w /\ t.src = f

C18_InitialScanConverts ==
    \A w \in 1..MaxHandles : \A f \in WorldOne.files : \A v \in 1..MaxFsOps :
        C18_Started(w, f, v) ~> (C18_Mirrored(w, f, v) \/ C18_Excused(w, f, v))

\* The file was written once, a session was started within
\* stabilityThreshold of the write, its scan has dispatched the file (no
\* event of it was held back) and the conversion is in the mirror tree.
C18_PresentFileMirrored ==
    \E w \in Handles :
        /\ Active(w)
        /\ nops = 1
        /\ FileAd \in DOMAIN burst /\ w \in burst[FileAd]
        /\ FileAd \notin Held(pendingWrites)
        /\ C18_Mirrored(w, FileAd, 1)


(***************************************************************************)
(* C19.  Supported types.  An event handed to the listeners starts a       *)
(* handler exactly when the extension of its path is .docx or .txt in      *)
(* lower or upper case; for any other extension there is no handler, hence *)
(* no read, no write or delete in the mirror tree and no failure.  A file  *)
(* named .DOCX is converted as a .docx: by mammoth, into stem + ".md".     *)
(***************************************************************************)
SupportedSpellings ==
    { <<".", "docx">>, <<".", "DOCX">>, <<".", "txt">>, <<".", "TXT">> }

C19_Step ==
    /\ \A e \in emitted' :
            ExtName(Last(e.src)) \in SupportedSpellings
                <=> \E t \in tasks' :
                        /\ t.w = e.w /\ t.src = e.src
                        /\ t.pc = IF e.ev = "unlink" THEN "unlink" ELSE "read"
    /\ \A t \in tasks' :
            /\ ExtName(Last(t.src)) \in SupportedSpellings
            /\ Last(t.dest.segs) = StemOf(Last(t.src)) \o <<".", "md">>
            /\ ExtName(Last(t.src)) \in { <<".", "docx">>, <<".", "DOCX">> } =>
                    /\ t.pc \in {"mkdir", "open", "write"} => t.buf.body.md
            /\ ExtName(Last(t.src)) \in { <<".", "txt">>, <<".", "TXT">> } =>
                    t.pc # "convert"
    /\ last'.op \in {"write", "unlinked", "failed"} =>
            ExtName(Last(last'.src)) \in SupportedSpellings

C19_OnlySupportedTypesHandled == [][C19_Step]_vars

\* Both files are present, the session has seen an event of each, and the
\* mirror tree holds the conversion of x.DOCX and nothing else.
C19_UpperCaseConverted ==
    \E w \in Handles :
        /\ Active(w)
        /\ FilePdf \in DOMAIN fs /\ FileUpper \in DOMAIN fs
        /\ tasks = {} /\ pendingWrites = EmptyMap
        /\ MirrorFile(w, FileUpper) \in DOMAIN fs
        /\ fs[MirrorFile(w, FileUpper)] = DocxOutput(FileUpper, fs[FileUpper])
        /\ DOMAIN fs = {FilePdf, FileUpper, MirrorFile(w, FileUpper)}


(***************************************************************************)
(* C20.  On-demand output path.  A convertFile call on a supported file    *)
(* has as its output path outputDir, or the directory of the file when     *)
(* outputDir is omitted, joined with the stem of the file plus ".md"; its  *)
(* successful end writes that file and returns that path; no step of the   *)
(* call changes another file, and only the open and the write of           *)
(* fs.writeFile change that one; and no step of the call changes the       *)
(* registry or a watcher.                                                  *)
(***************************************************************************)
C20_Expected(t) ==
    LET name == StemOf(Last(t.src)) \o <<".", "md">>
    IN  IF t.out = NoPath
        THEN Str(TRUE, Front(t.src) \o <<name>>, FALSE)
        ELSE Str(t.out.abs, t.out.segs \o <<name>>, FALSE)

C20_Step ==
    \A t \in (tasks \ tasks') \cup (tasks' \ tasks) :
        t.kind = "convertFile" =>
            /\ t.dest = C20_Expected(t)
            /\ UNCHANGED <<watchers, activeWatchers>>
            /\ \A f \in (DOMAIN fs \cup DOMAIN fs') \ {AbsSegs(C20_Expected(t))} :
                    f \in DOMAIN fs /\ f \in DOMAIN fs' /\ fs'[f] = fs[f]
            /\ IF t \in tasks /\ t.pc = "write" /\ last'.op = "write"
               THEN /\ last'.flag
                    /\ last'.ret = C20_Expected(t)
                    /\ last'.dest = AbsSegs(C20_Expected(t))
                    /\ last'.dest \in DOMAIN fs'
                    /\ Bytes(fs'[last'.dest]) = Output(t)
               ELSE fs' # fs => \E u \in tasks \ tasks' : u.kind = "convertFile" /\ u.pc = "open"

C20_OnDemandOutputPath == [][C20_Step]_vars

\* convertFile("/a/x.docx", "/out/") has returned /out/x.md, the file is
\* there, and a session is registered.
C20_WrittenToOutputDir ==
    /\ last.op = "write" /\ last.w = 0 /\ last.flag
    /\ last.src = FileAd
    /\ last.ret = Str(TRUE, << <<"out">>, <<"x", ".", "md">> >>, FALSE)
    /\ << <<"out">>, <<"x", ".", "md">> >> \in DOMAIN fs
    /\ DOMAIN activeWatchers # {}


(***************************************************************************)
(* C21.  Watch fault.  An "error" event of a watcher is logged and goes no *)
(* further: the step that handles it leaves the registry, every watcher    *)
(* (the faulty one and the others), the handlers in flight, the events     *)
(* held back and the files as they were.                                   *)
(***************************************************************************)
C21_Step ==
    last'.op = "watcherError" =>
        /\ last'.flag
        /\ UNCHANGED <<watchers, activeWatchers, tasks, pendingWrites, fs, dirs>>

C21_WatcherErrorHandled == [][C21_Step]_vars

\* An error of one session was logged while another session was active and
\* a handler was in flight.
C21_ErrorBesideOtherSession ==
    /\ last.op = "watcherError" /\ last.flag
    /\ Live(last.w)
    /\ \E v \in Handles : v # last.w /\ Active(v) /\ watchers[v].root # watchers[last.w].root
    /\ tasks # {}
    /\ Cardinality(DOMAIN activeWatchers) = 2


(***************************************************************************)
(* C22.  Input sanitization.  A request to /api/converter/watch, /unwatch  *)
(* or /convert one of whose path inputs (path, file, outputDir) contains   *)
(* ".." or a shell metacharacter is answered 400 and changes nothing: no   *)
(* registry entry, no watcher, no conversion that will write a file.       *)
(***************************************************************************)
\* The field holds a string with ".." or one of the characters the server
\* counts as shell metacharacters.
C22_Unsafe(v) ==
    \E i \in 1..Len(v.p.segs) :
        \/ HasDotDot(v.p.segs[i])
        \/ \E j \in 1..Len(v.p.segs[i]) : v.p.segs[i][j] \in Blocked

C22_Rejected ==
    /\ last'.op = "http400"
    /\ UNCHANGED <<watchers, activeWatchers, tasks, pendingWrites, fs, dirs>>

C22_Step ==
    /\ \A v \in world.paths :
            (C22_Unsafe(v) /\ (PostWatch(v) \/ PostUnwatch(v))) => C22_Rejected
    /\ \A v \in world.reqFiles : \A o \in world.reqOuts :
            ((C22_Unsafe(v) \/ C22_Unsafe(o)) /\ PostConvert(v, o)) => C22_Rejected

C22_UnsafeInputRejected == [][C22_Step]_vars


\* The page is idle: a search can be started.
Idle ==
    /\ ~ui.isSearching
    /\ ui.searchAbortController = 0
    /\ ui.loading = "hidden"
    /\ ui.buttons = "search"

\* Esc or the Cancel button was just pressed while a search was on.
C23_Pressed == ui.isSearching /\ ui.did \in {"escape", "clickCancel"}

\* C23: whenever Esc or the Cancel button is pressed while a search is in
\* progress, the request in flight is aborted, and the page then always
\* comes back to the idle state: isSearching false, searchAbortController
\* null, the loading indicator hidden and Fast and Deep shown again.
C23_CancelReturnsToIdle ==
    /\ [](C23_Pressed => /\ ui.reqs # EmptyMap
                         /\ \A r \in DOMAIN ui.reqs : ui.reqs[r].aborted)
    /\ (C23_Pressed ~> Idle)

\* A search was cancelled, once by the button and before by Esc or the
\* other way round, and the page is idle again with the toast of the cancel.
C23_CancelledAndIdle ==
    /\ Idle
    /\ ui.did = "AbortError"
    /\ ui.toast = "Search cancelled"
    /\ ui.sent = 2


(***************************************************************************)
(* C24.  x.docx and x.txt of one directory have the same mirror path.      *)
(* With both present, each written once, a conversion of one of them that  *)
(* completes its write leaves its own output in the mirror file, and no    *)
(* other file below the mirror root.                                       *)
(***************************************************************************)
\* The files below the mirror root of session w.
MirrorFiles(w) == {f \in DOMAIN fs : IsPrefix(MirrorRoot(w), f)}

C24_Step ==
    \A t \in tasks \ tasks' :
        (/\ last'.op = "write" /\ t.pc = "write" /\ t.src = last'.src
         /\ {FileAd, FileAt} \subseteq DOMAIN fs
         /\ last'.dest \in DOMAIN fs')
            => /\ fs'[last'.dest] = Output(t)
               /\ MirrorFiles(t.w)' = {last'.dest}

\* C24: when x.docx and x.txt lie in one watched directory, the mirror
\* file holds the output of whichever of the two conversions wrote last,
\* and there is no second mirror file.
C24_LastWriterWins == [][C24_Step]_vars

(***************************************************************************)
(* C25.  A conversion that fails at its read or in mammoth changes no      *)
(* file and creates no directory: the mirror file is neither created nor   *)
(* modified, and its directory is not created.                             *)
(***************************************************************************)
C25_Step ==
    \A t \in tasks \ tasks' :
        (t.pc \in {"read", "convert"} /\ last'.op = "failed" /\ last'.w = t.w /\ last'.src = t.src)
            => /\ fs' = fs
               /\ dirs' = dirs

\* C25: when reading or converting a source file fails, no mirror
\* directory is created and the mirror file is neither created nor
\* modified.
C25_FailureLeavesTargetUntouched == [][C25_Step]_vars

\* mammoth has rejected the second version of x.docx, and the mirror file
\* still holds the conversion of the first.
C25_MirrorOfEarlierVersionKept ==
    /\ last.op = "failed"
    /\ last.src = FileAd
    /\ FileAd \in DOMAIN fs
    /\ fs[FileAd].body.bad
    /\ last.dest \in DOMAIN fs
    /\ fs[last.dest] = DocxOutput(FileAd, Raw(1, FALSE))


(***************************************************************************)
(* C26.  convertFile(F, mirror directory of a session) races with the      *)
(* session's conversion of F.  Two writes to the mirror file that complete *)
(* one after the other, one of the session and one of convertFile, leave   *)
(* in it the output of the second or the output of the first; the registry *)
(* and the watchers are not changed by the steps of convertFile.           *)
(***************************************************************************)
C26_Step ==
    \A u \in tasks \ tasks' :
        /\ (/\ last.op = "write" /\ last.flag /\ last.dest = AbsSegs(u.dest)
            /\ (last.w = 0) # (u.w = 0)
            /\ last.dest \in DOMAIN fs
            /\ u.pc = "write" /\ last'.op = "write" /\ last'.dest \in DOMAIN fs')
                => fs'[last'.dest] \in {Output(u), fs[last.dest]}
        /\ u.kind = "convertFile" => UNCHANGED <<watchers, activeWatchers>>

\* C26: when convertFile writes into a session's mirror directory while
\* the session converts the same source file, both writes complete, the
\* mirror file finally holds the complete output of exactly one of the two
\* conversions, and the registry and the session are unaffected.
C26_MirrorHoldsOneCompleteOutput == [][C26_Step]_vars

(***************************************************************************)
(* C27.  Removal frame.  A run of the unlink handler for source file F     *)
(* removes no directory, creates no file and leaves every file but the     *)
(* mirror file of F as it was.                                             *)
(***************************************************************************)
C27_Step ==
    \A t \in tasks \ tasks' :
        t.pc = "unlink" =>
            /\ dirs' = dirs
            /\ DOMAIN fs' \subseteq DOMAIN fs
            /\ \A f \in DOMAIN fs \ {MirrorFile(t.w, t.src)} : f \in DOMAIN fs' /\ fs'[f] = fs[f]

\* C27: dispatching an unlink for source file F deletes at most the mirror
\* file at F's mapped path; it removes no directory of the mirror tree and
\* changes no other mirror file and no source file.
C27_RemovalFrame == [][C27_Step]_vars

\* The unlink handler has removed the only mirror file, the mirror
\* directory is still there, empty, and so is a file outside of it.
C27_EmptyMirrorDirectoryKept ==
    /\ last.op = "unlinked" /\ last.flag
    /\ last.w \in Handles
    /\ MirrorRoot(last.w) \in dirs
    /\ MirrorFiles(last.w) = {}
    /\ last.dest = MirrorFile(last.w, last.src)
    /\ DOMAIN fs # {}


(***************************************************************************)
(* C28.  A stopped session is not resumed.  No step puts a closed watcher  *)
(* into the registry; a watchDir on a path whose watchers are all closed   *)
(* returns already = false and registers a watcher that did not exist      *)
(* before, open and with its initial scan still to come; and the scan of   *)
(* a watcher dispatches every convertible file present below its root.     *)
(***************************************************************************)
C28_Step ==
    /\ \A w \in Handles :
            watchers[w].state = "closed" =>
                \A p \in DOMAIN activeWatchers' : activeWatchers'[p] # w
    /\ \A raw \in world.roots :
            (/\ last'.op = "watchDir" /\ last'.src = Resolve(raw).segs
             /\ \E w \in Handles : watchers[w].root = Resolve(raw)
             /\ \A w \in Handles : watchers[w].root = Resolve(raw) => watchers[w].state = "closed")
                => /\ ~last'.flag
                   /\ last'.w \notin Handles
                   /\ last'.w \in 1..Len(watchers')
                   /\ Resolve(raw) \in DOMAIN activeWatchers'
                   /\ activeWatchers'[Resolve(raw)] = last'.w
                   /\ watchers'[last'.w].state = "open"
                   /\ ~watchers'[last'.w].ready
    /\ \A w \in Handles :
            (last'.op = "scan" /\ last'.w = w) =>
                \A f \in Sources(w) : \E t \in tasks' : t.w = w /\ t.src = f /\ t.kind = "process"

\* C28: a watcher that unwatchDir has closed is never put back into the
\* registry; a later watchDir on the same path creates a fresh watcher
\* (already = false) that performs a new initial scan.
C28_StoppedSessionsAreTerminal == [][C28_Step]_vars

\* The first session of /a was stopped and is closed; a second watcher is
\* registered for /a and its scan has dispatched x.docx again.
C28_SecondSessionScanned ==
    /\ Len(watchers) = 2
    /\ watchers[1].state = "closed"
    /\ watchers[2].root = watchers[1].root
    /\ activeWatchers[watchers[2].root] = 2
    /\ last.op = "scan" /\ last.w = 2
    /\ \E t \in tasks : t.w = 2 /\ t.src = FileAd


(***************************************************************************)
(* C29.  After watchDir(P) has returned, and as long as no unwatchDir(P)   *)
(* is called, P is registered with a watcher that is open.                 *)
(***************************************************************************)
C29_Watched(p) == p \in DOMAIN activeWatchers /\ watchers[activeWatchers[p]].state = "open"

C29_Step ==
    \A raw \in world.roots :
        LET p == Resolve(raw)
        IN  (last.op = "watchDir" /\ last.src = p.segs) =>
                /\ C29_Watched(p)
                /\ ~(last'.op = "unwatchCall" /\ last'.src = p.segs) => C29_Watched(p)'

\* C29: whenever watchDir(P) has returned and no unwatchDir(P) call is
\* started after that return, P keeps a live registered watcher, also when
\* the watchDir ran while an earlier unwatchDir(P) was awaiting the close.
C29_WatchDirReliable == [][C29_Step]_vars


(***************************************************************************)
(* C30.  The scan of a session dispatches every convertible file below its *)
(* root, except a file with a path segment that begins with a dot, a file  *)
(* inside a directory named node_modules and a file below the session's    *)
(* own mirror root.                                                        *)
(***************************************************************************)
C30_Excluded(w, f) ==
    \/ \E i \in 1..Len(f) : Len(f[i]) > 0 /\ f[i][1] = "."
    \/ \E i \in 1..(Len(f) - 1) : f[i] = <<"node_modules">>
    \/ IsPrefix(MirrorRoot(w), f)

C30_Step ==
    \A w \in Handles :
        (last'.op = "scan" /\ last'.w = w) =>
            \A f \in DOMAIN fs :
                (InScope(watchers[w].root, f) /\ IsConvertible(f) /\ ~C30_Excluded(w, f))
                    => \E t \in tasks' : t.w = w /\ t.src = f /\ t.kind = "process"

\* C30: the ignore rules exclude nothing else; a file whose name merely
\* contains the text "node_modules" or "_qmd_converted" is still watched
\* and converted.
C30_NothingElseIgnored == [][C30_Step]_vars


(***************************************************************************)
(* C31.  Every file a session creates, overwrites or deletes lies under    *)
(* that session's mirror root, the source root + "_qmd_converted"; no      *)
(* session writes or deletes anything under its own source root or under   *)
(* the mirror root of a session on another root, nested roots included.    *)
(***************************************************************************)
\* The files a step creates, overwrites or deletes.
C31_Touched ==
    {f \in DOMAIN fs \cup DOMAIN fs' :
        f \notin DOMAIN fs \/ f \notin DOMAIN fs' \/ fs[f] # fs'[f]}

C31_Step ==
    \A t \in tasks \ tasks' :
        t.kind # "convertFile" =>
            LET R == watchers[t.w].root
                others == {v \in Handles : watchers[v].root # R}
            IN  \A f \in C31_Touched :
                    /\ IsPrefix(AbsSegs(PathPlusSuffix(R)), f)
                    /\ ~IsPrefix(AbsSegs(R), f)
                    /\ \A v \in others :
                            ~IsPrefix(AbsSegs(PathPlusSuffix(watchers[v].root)), f)

\* C31: the steps of a session's handlers touch files only under the
\* session's source root + "_qmd_converted", and touch nothing under the
\* session's source root or under the mirror root of a session on another
\* root.
C31_WritesStayInOwnMirrorTree == [][C31_Step]_vars


(***************************************************************************)
(* C32.  At most one search request is in flight at any time: while        *)
(* isSearching is true every further trigger of doSearch (Enter,           *)
(* Shift+Enter, the Fast or the Deep button) returns without sending a     *)
(* request, and isSearching is true exactly while a request started by     *)
(* doSearch has not yet come back to doSearch as completed, failed or      *)
(* aborted.                                                                *)
(***************************************************************************)
\* The requests doSearch is still awaiting: each leaves ui.reqs when the
\* await returns the parsed body (completed) or throws an Error (failed) or
\* an AbortError (aborted).
C32_InFlight == DOMAIN ui.reqs

C32_State ==
    /\ Cardinality(C32_InFlight) <= 1
    /\ ui.isSearching <=> C32_InFlight # {}
    /\ ui.isSearching =>
            \A mode \in Modes : \A focus \in BOOLEAN :
                LET u == doSearch([ui EXCEPT !.focus = focus], mode)
                IN  u.sent = ui.sent /\ u.reqs = ui.reqs /\ u.isSearching

C32_Step ==
    ui.isSearching => ui'.sent = ui.sent /\ DOMAIN ui'.reqs \subseteq DOMAIN ui.reqs

\* C32: never more than one request awaited; isSearching is true exactly
\* when there is one; and while it is true no step of the page, a trigger of
\* doSearch included, sends a request.
C32_OneSearchInFlight == [](C32_State) /\ [][C32_Step]_vars

\* Enter was pressed with a query typed while a search was on, and nothing
\* was sent.
C32_TriggerIgnoredWhileSearching ==
    /\ ui.isSearching
    /\ ui.did = "ignored"
    /\ ui.q # ""
    /\ Cardinality(C32_InFlight) = 1

=============================================================================
